---------------------------- MODULE Spec2Model ----------------------------
(***************************************************************************)
(* Query execution and cursor layer of RediSearch                          *)
(* (src/aggregate/aggregate_exec.c).                                       *)
(*                                                                         *)
(* The command handlers of aggregate_exec.c are translated statement by    *)
(* statement into operators over a "world" record (the heap of AREQ        *)
(* objects and the cursor registry).  The cursor registry itself           *)
(* (cursor.c) and the pipeline's Next are not part of aggregate_exec.c;    *)
(* they are modelled from the specification's section 4.1 and 4.4.         *)
(*                                                                         *)
(* A handler that drives a cursor is split in two steps, the lease being   *)
(* held in between: the pipeline's Next may yield cooperatively, so other  *)
(* commands can be served while a cursor is Leased.                        *)
(***************************************************************************)
EXTENDS Integers, Sequences, FiniteSets, TLC

VARIABLES
  docs,      \* per index: the number of results a query's pipeline yields
  areq,      \* heap of AREQ objects, by allocation number
  cursors,   \* RSCursors: the registry, cursor id -> Cursor
  used,      \* RSCursors: per-index count of cursors
  nextCid,   \* RSCursors: the next cursor id to hand out
  cli,       \* per client: the handler suspended inside runCursor, if any
  reply,     \* the command served by the last step and the reply it sent
  recv       \* per cursor id: the rows its client has received so far

vars == <<docs, areq, cursors, used, nextCid, cli, reply, recv>>

-----------------------------------------------------------------------------
(* Bounds of the model *)

MaxReq == 2       \* AREQ_New calls in a behaviour
MaxResults == 2   \* results a pipeline yields
MaxChunk == 1     \* largest chunk size (WITHCURSOR COUNT, READ COUNT) given
MaxIdle == 1      \* largest MAXIDLE given, in clock ticks

(* Program constants *)

\* (size_t)-1, the limit AREQ_Execute passes to sendChunk, at the width of
\* the model's integers
SizeMax == 2147483647
\* RSGlobalConfig.cursorReadSize
cursorReadSize == 1000
\* the configured per-index cursor cap
cursorMaxPerIndex == 1

Indexes == {"idx", "idy"}
Clients == {"c1", "c2"}

REDISMODULE_OK == "OK"
REDISMODULE_ERR == "ERR"
RS_RESULT_OK == "RS_OK"
RS_RESULT_EOF == "RS_EOF"
RS_RESULT_PAUSED == "RS_PAUSED"
RS_RESULT_ERROR == "RS_ERROR"

QEXEC_F_IS_SEARCH == "IS_SEARCH"
QEXEC_F_IS_CURSOR == "IS_CURSOR"
QEXEC_F_NOROWS == "NOROWS"
QEXEC_S_ITERDONE == "ITERDONE"
QEXEC_S_ERROR == "ERROR"

COMMAND_AGGREGATE == "AGGREGATE"
COMMAND_SEARCH == "SEARCH"
COMMAND_EXPLAIN == "EXPLAIN"

NULL == 0

Min(a, b) == IF a < b THEN a ELSE b

\* a long long converted to size_t
ToSizeT(n) == IF n < 0 THEN SizeMax - (-n - 1) ELSE n


-----------------------------------------------------------------------------
(* The AREQ object and the result-processor pipeline *)

QEXEC_F_SEND_SCORES == "SEND_SCORES"
QEXEC_F_SEND_PAYLOADS == "SEND_PAYLOADS"
QEXEC_F_SEND_SORTKEYS == "SEND_SORTKEYS"
QEXEC_F_SEND_NOFIELDS == "SEND_NOFIELDS"

\* AREQ_New: a zeroed request.  freed counts the AREQ_Free calls on the
\* object; thctx is the thread-safe context made for it by buildRequest.
AREQ_New ==
  [freed |-> 0, reqflags |-> {}, stateflags |-> {}, cursorChunkSize |-> 0,
   cursorMaxIdle |-> 0, sctx |-> "", hasArrange |-> FALSE, pos |-> 0,
   totalResults |-> 0, thctx |-> "none"]

\* The pipeline's answer to the calls of one chunk that find it exhausted or
\* failing: at = 0 is a pipeline that ends with Eof; otherwise its at-th
\* call of the chunk returns rc (a cooperative yield, or a stage failure).
NoFault == [at |-> 0, rc |-> RS_RESULT_EOF]
Oracles ==
  {NoFault} \cup [at : 1..(MaxResults + 1), rc : {RS_RESULT_PAUSED, RS_RESULT_ERROR}]

\* A NULL RSValue pointer, and the result buffer before any result
NoValue == [t |-> "NULL", v |-> 0]
NoResult ==
  [docId |-> 0, dmd |-> [present |-> FALSE, key |-> 0, payload |-> NoValue],
   score |-> 0, sortkey |-> NoValue, fields |-> <<>>]

\* The i-th result of a pipeline: document i, its metadata, score and row.
Result(i) ==
  [docId |-> i, dmd |-> [present |-> TRUE, key |-> i, payload |-> NoValue],
   score |-> i, sortkey |-> [t |-> "Number", v |-> i],
   fields |-> <<[name |-> "f", hidden |-> FALSE, v |-> i]>>]

\* rp->Next(rp, &r): the k-th call of the current chunk on the pipeline of
\* req.  Ok hands out the next result; a stage failure marks the request.
Next_rp(req, k, o) ==
  IF o.at = k
  THEN [rc |-> o.rc, r |-> NoResult,
        req |-> IF o.rc = RS_RESULT_ERROR
                THEN [req EXCEPT !.stateflags = @ \cup {QEXEC_S_ERROR}]
                ELSE req]
  ELSE IF req.pos < docs[req.sctx]
  THEN [rc |-> RS_RESULT_OK, r |-> Result(req.pos + 1),
        req |-> [req EXCEPT !.pos = @ + 1, !.totalResults = docs[req.sctx]]]
  ELSE [rc |-> RS_RESULT_EOF, r |-> NoResult,
        req |-> [req EXCEPT !.totalResults = docs[req.sctx]]]

-----------------------------------------------------------------------------
(* Reply serializer *)

\* getSortKey: the value of the first sort key, NULL without an ArrangeStep
getSortKey(req, r) ==
  IF ~req.hasArrange THEN NoValue ELSE r.sortkey

\* Strings are sequences of bytes; NUL is the zero byte, which ends a C
\* string.  Numbers are the whole numbers, a double's exactly representable
\* values that print without a fraction.
NUL == "NUL"

\* printf's %s: the bytes of the argument up to its first zero byte
RECURSIVE PrintfS(_)
PrintfS(str) ==
  IF str = <<>> \/ Head(str) = NUL THEN <<>>
  ELSE <<Head(str)>> \o PrintfS(Tail(str))

DigitChar(d) == <<"0", "1", "2", "3", "4", "5", "6", "7", "8", "9">>[d + 1]

RECURSIVE Digits(_)
Digits(n) ==
  IF n < 10 THEN <<DigitChar(n)>>
  ELSE Digits(n \div 10) \o <<DigitChar(n % 10)>>

\* printf's %.17g on a whole number of at most 17 digits: sign and digits
PrintfG17(n) == IF n < 0 THEN <<"-">> \o Digits(-n) ELSE Digits(n)

\* The sort-key section of a result (lines 56-82)
SortKeyReply(sortkey) ==
  IF sortkey.t = "NULL" THEN [k |-> "null", v |-> <<>>]
  ELSE CASE sortkey.t = "Number" ->
              [k |-> "string", v |-> <<"#">> \o PrintfG17(sortkey.v)]
         [] sortkey.t = "String" ->
              [k |-> "string", v |-> <<"$">> \o PrintfS(sortkey.v)]
         [] sortkey.t = "RedisString" ->
              [k |-> "string", v |-> <<"$">> \o PrintfS(sortkey.v)]
         [] OTHER -> [k |-> "null", v |-> <<>>]

\* The nested field array: name and value of every key that is not hidden
RECURSIVE FieldsReply(_)
FieldsReply(fs) ==
  IF fs = <<>> THEN <<>>
  ELSE (IF Head(fs).hidden THEN <<>> ELSE <<Head(fs).name, Head(fs).v>>)
       \o FieldsReply(Tail(fs))

\* A faulty serializer: the payload slot is counted only when a payload is
\* written, although the null written in its place is an element too
serializeResult_PayloadUncounted(req, r) ==
  LET options == req.reqflags
      dmd == r.dmd
      key == dmd.present /\ QEXEC_F_IS_SEARCH \in req.reqflags
      scores == QEXEC_F_SEND_SCORES \in options
      payloads == QEXEC_F_SEND_PAYLOADS \in options
      sortkeys == QEXEC_F_SEND_SORTKEYS \in options
      fields == QEXEC_F_SEND_NOFIELDS \notin options
      haspayload == dmd.present /\ dmd.payload.t # "NULL"
  IN  [out |->
         (IF key THEN <<[k |-> "string", v |-> <<dmd.key>>]>> ELSE <<>>)
      \o (IF scores THEN <<[k |-> "double", v |-> <<r.score>>]>> ELSE <<>>)
      \o (IF payloads
          THEN (IF haspayload
                THEN <<[k |-> "string", v |-> <<dmd.payload.v>>]>>
                ELSE <<[k |-> "null", v |-> <<>>]>>)
          ELSE <<>>)
      \o (IF sortkeys THEN <<SortKeyReply(getSortKey(req, r))>> ELSE <<>>)
      \o (IF fields THEN <<[k |-> "array", v |-> FieldsReply(r.fields)]>> ELSE <<>>),
       count |->
         (IF key THEN 1 ELSE 0) + (IF scores THEN 1 ELSE 0)
         + (IF payloads /\ haspayload THEN 1 ELSE 0) + (IF sortkeys THEN 1 ELSE 0)
         + (IF fields THEN 1 ELSE 0)]

\* A faulty serializer: a search result never carries its field array
serializeResult_SearchNoFields(req, r) ==
  LET options == req.reqflags
      dmd == r.dmd
      key == dmd.present /\ QEXEC_F_IS_SEARCH \in req.reqflags
      scores == QEXEC_F_SEND_SCORES \in options
      payloads == QEXEC_F_SEND_PAYLOADS \in options
      sortkeys == QEXEC_F_SEND_SORTKEYS \in options
      fields == QEXEC_F_SEND_NOFIELDS \notin options
                /\ QEXEC_F_IS_SEARCH \notin options
  IN  [out |->
         (IF key THEN <<[k |-> "string", v |-> <<dmd.key>>]>> ELSE <<>>)
      \o (IF scores THEN <<[k |-> "double", v |-> <<r.score>>]>> ELSE <<>>)
      \o (IF payloads
          THEN (IF dmd.present /\ dmd.payload.t # "NULL"
                THEN <<[k |-> "string", v |-> <<dmd.payload.v>>]>>
                ELSE <<[k |-> "null", v |-> <<>>]>>)
          ELSE <<>>)
      \o (IF sortkeys THEN <<SortKeyReply(getSortKey(req, r))>> ELSE <<>>)
      \o (IF fields THEN <<[k |-> "array", v |-> FieldsReply(r.fields)]>> ELSE <<>>),
       count |->
         (IF key THEN 1 ELSE 0) + (IF scores THEN 1 ELSE 0)
         + (IF payloads THEN 1 ELSE 0) + (IF sortkeys THEN 1 ELSE 0)
         + (IF fields THEN 1 ELSE 0)]

\* serializeResult: out is the top-level elements written for one result,
\* count the number the function returns
serializeResult(req, r) ==
  LET options == req.reqflags
      dmd == r.dmd
      key == dmd.present /\ QEXEC_F_IS_SEARCH \in req.reqflags
      scores == QEXEC_F_SEND_SCORES \in options
      payloads == QEXEC_F_SEND_PAYLOADS \in options
      sortkeys == QEXEC_F_SEND_SORTKEYS \in options
      fields == QEXEC_F_SEND_NOFIELDS \notin options
  IN  [out |->
         (IF key THEN <<[k |-> "string", v |-> <<dmd.key>>]>> ELSE <<>>)
      \o (IF scores THEN <<[k |-> "double", v |-> <<r.score>>]>> ELSE <<>>)
      \o (IF payloads
          THEN (IF dmd.present /\ dmd.payload.t # "NULL"
                THEN <<[k |-> "string", v |-> <<dmd.payload.v>>]>>
                ELSE <<[k |-> "null", v |-> <<>>]>>)
          ELSE <<>>)
      \o (IF sortkeys THEN <<SortKeyReply(getSortKey(req, r))>> ELSE <<>>)
      \o (IF fields THEN <<[k |-> "array", v |-> FieldsReply(r.fields)]>> ELSE <<>>),
       count |->
         (IF key THEN 1 ELSE 0) + (IF scores THEN 1 ELSE 0)
         + (IF payloads THEN 1 ELSE 0) + (IF sortkeys THEN 1 ELSE 0)
         + (IF fields THEN 1 ELSE 0)]

\* A faulty first pull: total_results is written only when Next returned Ok
FirstPull_TotalOnOk(req, limit, nx, ser) ==
  [req |-> nx.req,
   nrows |-> IF nx.rc = RS_RESULT_OK THEN 1 ELSE 0,
   nelem |-> IF nx.rc = RS_RESULT_OK /\ 0 < limit /\ QEXEC_F_NOROWS \notin req.reqflags
             THEN 1 + ser.count ELSE IF nx.rc = RS_RESULT_OK THEN 1 ELSE 0,
   rc |-> nx.rc,
   pulls |-> 1,
   elems |-> (IF nx.rc = RS_RESULT_OK
              THEN <<[k |-> "int", v |-> <<nx.req.totalResults>>]>> ELSE <<>>)
             \o (IF nx.rc = RS_RESULT_OK /\ 0 < limit
                    /\ QEXEC_F_NOROWS \notin req.reqflags
                 THEN ser.out ELSE <<>>),
   rows |-> IF nx.rc = RS_RESULT_OK /\ 0 < limit /\ QEXEC_F_NOROWS \notin req.reqflags
            THEN <<nx.r.docId>> ELSE <<>>]

\* The locals of sendChunk after its first pull (lines 122-127), nx being
\* what Next returned and ser the serialization of its result: the request,
\* nrows, nelem, rc, and what has been written so far: the elements, the
\* results serialized, the number of Next calls made in this chunk.
FirstPull(req, limit, nx, ser) ==
  [req |-> nx.req,
   nrows |-> IF nx.rc = RS_RESULT_OK THEN 1 ELSE 0,
   nelem |-> IF nx.rc = RS_RESULT_OK /\ 0 < limit /\ QEXEC_F_NOROWS \notin req.reqflags
             THEN 1 + ser.count ELSE 1,
   rc |-> nx.rc,
   pulls |-> 1,
   elems |-> <<[k |-> "int", v |-> <<nx.req.totalResults>>]>>
             \o (IF nx.rc = RS_RESULT_OK /\ 0 < limit
                    /\ QEXEC_F_NOROWS \notin req.reqflags
                 THEN ser.out ELSE <<>>),
   rows |-> IF nx.rc = RS_RESULT_OK /\ 0 < limit /\ QEXEC_F_NOROWS \notin req.reqflags
            THEN <<nx.r.docId>> ELSE <<>>]

\* The body of the while loop (lines 135-137) on the result nx of Next
Serialized(st, nx, ser) ==
  [st EXCEPT !.req = nx.req, !.nrows = @ + 1, !.rc = nx.rc, !.pulls = @ + 1,
             !.nelem = @ + ser.count, !.elems = @ \o ser.out,
             !.rows = Append(@, nx.r.docId)]

\* The while loop of sendChunk (line 134): nrows++ < limit, then Next
RECURSIVE ChunkLoop(_, _, _)

\* A faulty while loop: NOROWS is honoured for every result of the chunk
ChunkPulled_NoRows(st, limit, o, nx) ==
  IF nx.rc = RS_RESULT_OK
  THEN ChunkLoop(IF QEXEC_F_NOROWS \in st.req.reqflags
                 THEN [st EXCEPT !.req = nx.req, !.nrows = @ + 1, !.rc = nx.rc,
                                 !.pulls = @ + 1]
                 ELSE Serialized(st, nx, serializeResult(st.req, nx.r)),
                 limit, o)
  ELSE [st EXCEPT !.req = nx.req, !.nrows = @ + 1, !.rc = nx.rc, !.pulls = @ + 1]

ChunkPulled(st, limit, o, nx) ==
  IF nx.rc = RS_RESULT_OK
  THEN ChunkLoop(Serialized(st, nx, serializeResult(st.req, nx.r)), limit, o)
  ELSE [st EXCEPT !.req = nx.req, !.nrows = @ + 1, !.rc = nx.rc, !.pulls = @ + 1]

\* A faulty while loop: Next is called before nrows is tested against the
\* limit, so the result pulled at the limit is cleared unsent
PulledThenTested(st, limit, o, nx) ==
  IF nx.rc = RS_RESULT_OK /\ st.nrows < limit
  THEN ChunkLoop(Serialized(st, nx, serializeResult(st.req, nx.r)), limit, o)
  ELSE [st EXCEPT !.req = nx.req, !.nrows = @ + 1, !.rc = nx.rc, !.pulls = @ + 1]

ChunkLoop_PullFirst(st, limit, o) ==
  PulledThenTested(st, limit, o, Next_rp(st.req, st.pulls + 1, o))

ChunkLoop(st, limit, o) ==
  IF st.nrows < limit
  THEN ChunkPulled(st, limit, o, Next_rp(st.req, st.pulls + 1, o))
  ELSE [st EXCEPT !.nrows = @ + 1]

\* The done label of sendChunk (lines 140-146): the request afterwards and
\* the reply array: its elements, the length it is closed with, the results
\* it holds, the last return of Next and the number of Next calls
ChunkDone(st) ==
  [req |-> IF st.rc # RS_RESULT_OK
           THEN [st.req EXCEPT !.stateflags = @ \cup {QEXEC_S_ITERDONE}]
           ELSE st.req,
   elems |-> st.elems, nelem |-> st.nelem, rows |-> st.rows,
   rc |-> st.rc, pulls |-> st.pulls]

AfterFirstPull(st, limit, o) ==
  IF st.rc # RS_RESULT_OK THEN st ELSE ChunkLoop(st, limit, o)

FirstPulled(req, limit, o, nx) ==
  ChunkDone(AfterFirstPull(FirstPull(req, limit, nx, serializeResult(req, nx.r)),
                           limit, o))

\* sendChunk(req, outctx, limit)
sendChunk(req, limit, o) ==
  FirstPulled(req, limit, o, Next_rp(req, 1, o))

-----------------------------------------------------------------------------
(* The world the handlers act on: the AREQ heap and the RSCursors registry *)

World == [areq |-> areq, cursors |-> cursors, used |-> used, nextCid |-> nextCid]

\* AREQ_Free(req): the object is destroyed; freed counts the calls on it
AREQ_Free(w, rid) ==
  [w EXCEPT !.areq[rid] =
     [AREQ_New EXCEPT !.freed = Min(w.areq[rid].freed + 1, 2),
                      !.thctx = w.areq[rid].thctx]]

\* RedisModule_FreeThreadSafeContext on the context made for request rid
FreeThreadSafeContext(w, rid) ==
  [w EXCEPT !.areq[rid].thctx =
     CASE @ = "live" -> "freed"
       [] OTHER -> "double"]

\* Cursor_FreeExecState (line 378)
Cursor_FreeExecState(w, p) == AREQ_Free(w, p)

\* A faulty Cursors_Reserve: the cap is tested with > where >= is meant
Cursors_Reserve_OffByOne(w, ixname, maxIdle) ==
  IF w.used[ixname] > cursorMaxPerIndex
  THEN [w |-> w, cursor |-> NULL, err |-> "CursorCapExceeded"]
  ELSE [w |-> [w EXCEPT
                 !.cursors = [c \in DOMAIN w.cursors \cup {w.nextCid} |->
                    IF c = w.nextCid
                    THEN [id |-> w.nextCid, specName |-> ixname, execState |-> NULL,
                          sctx |-> NULL, state |-> "Leased", idle |-> 0,
                          maxIdle |-> maxIdle]
                    ELSE w.cursors[c]],
                 !.used[ixname] = @ + 1,
                 !.nextCid = @ + 1],
        cursor |-> w.nextCid, err |-> ""]

\* Cursors_Reserve: refuses at the per-index cap; otherwise a cursor with a
\* fresh id, counted for its index, leased to the caller
Cursors_Reserve(w, ixname, maxIdle) ==
  IF w.used[ixname] >= cursorMaxPerIndex
  THEN [w |-> w, cursor |-> NULL, err |-> "CursorCapExceeded"]
  ELSE [w |-> [w EXCEPT
                 !.cursors = [c \in DOMAIN w.cursors \cup {w.nextCid} |->
                    IF c = w.nextCid
                    THEN [id |-> w.nextCid, specName |-> ixname, execState |-> NULL,
                          sctx |-> NULL, state |-> "Leased", idle |-> 0,
                          maxIdle |-> maxIdle]
                    ELSE w.cursors[c]],
                 !.used[ixname] = @ + 1,
                 !.nextCid = @ + 1],
        cursor |-> w.nextCid, err |-> ""]

\* Cursors_TakeForExecution: Paused -> Leased, or NULL
Cursors_TakeForExecution(w, cid) ==
  IF cid \in DOMAIN w.cursors /\ w.cursors[cid].state = "Paused"
  THEN [w |-> [w EXCEPT !.cursors[cid].state = "Leased"], cursor |-> cid]
  ELSE [w |-> w, cursor |-> NULL]

\* Cursor_Pause: the lease is released and last_used is set to now.
\* idle is now - last_used, counted in ticks up to maxIdle.
Cursor_Pause(w, cid) ==
  [w EXCEPT !.cursors[cid].state = "Paused", !.cursors[cid].idle = 0]

\* Cursor_Free: the dispose protocol.  A request still attached is freed,
\* the thread-safe context is released, the cursor leaves the registry and
\* its index's count is decremented.
Unregister(w, cid, ixname) ==
  [w EXCEPT !.cursors = [c \in DOMAIN w.cursors \ {cid} |-> w.cursors[c]],
            !.used[ixname] = @ - 1]

FreeSearchCtx(w, sctx) ==
  IF sctx # NULL THEN FreeThreadSafeContext(w, sctx) ELSE w

FreeAttached(w, execState) ==
  IF execState # NULL THEN Cursor_FreeExecState(w, execState) ELSE w

Cursor_Free(w, cid) ==
  Unregister(FreeSearchCtx(FreeAttached(w, w.cursors[cid].execState),
                           w.cursors[cid].sctx),
             cid, w.cursors[cid].specName)

\* Cursors_Purge: disposes the cursor with this id, if there is one
Cursors_Purge(w, cid) ==
  IF cid \in DOMAIN w.cursors
  THEN [w |-> Cursor_Free(w, cid), rc |-> REDISMODULE_OK]
  ELSE [w |-> w, rc |-> REDISMODULE_ERR]

\* The cursors a reclamation pass may free
IdleCursors(w) ==
  {c \in DOMAIN w.cursors :
     w.cursors[c].state = "Paused" /\ w.cursors[c].idle >= w.cursors[c].maxIdle}

RECURSIVE FreeAll(_, _)
FreeAll(w, cs) ==
  IF cs = {} THEN w
  ELSE LET c == CHOOSE x \in cs : TRUE IN FreeAll(Cursor_Free(w, c), cs \ {c})

\* Cursors_CollectIdle: disposes the idle cursors and returns their number
Cursors_CollectIdle(w) ==
  [w |-> FreeAll(w, IdleCursors(w)), rc |-> Cardinality(IdleCursors(w))]

-----------------------------------------------------------------------------
(* Replies.  reply is what the last step sent (nothing when time passed or *)
(* a handler only took its cursor): kind is the         *)
(* reply's shape, err an error's text, num an integer reply (for a chunk of *)
(* a cursor, the chunk size it ran with), rows the results of a chunk, cid *)
(* the second element of a cursor reply.  arg, rc, pulls, flags, reopens   *)
(* and count describe the step: the cursor id it was given or ran, the     *)
(* last return of Next, the number of Next calls it made, the request's    *)
(* state flags as the handler read them after the chunk, the number of     *)
(* ReopenKeys calls, and the count runCursor was called with.              *)

NoReply ==
  [kind |-> "none", err |-> "", num |-> 0, rows |-> <<>>, cid |-> -1,
   arg |-> NULL, rc |-> "", pulls |-> 0, flags |-> {},
   reopens |-> 0, count |-> 0]

\* RedisModule_WrongArity: the error names the command
WrongArity(cmd) == [NoReply EXCEPT !.kind = "arity", !.err = cmd]
ReplyWithError(msg) == [NoReply EXCEPT !.kind = "error", !.err = msg]
ReplyWithSimpleString(str) == [NoReply EXCEPT !.kind = "string", !.err = str]
ReplyWithLongLong(n) == [NoReply EXCEPT !.kind = "int", !.num = n]

-----------------------------------------------------------------------------
(* Request build and execute *)

\* What AREQ_Compile reads from argv + 2: the flags, the cursor settings,
\* and where, if anywhere, the build of this query fails.
QueryArgs ==
  [flags : {{}, {QEXEC_F_NOROWS}}, count : {0}, maxidle : {0},
   fail : {"none", "compile", "pipeline"}]
  \cup
  [flags : {{QEXEC_F_IS_CURSOR}, {QEXEC_F_IS_CURSOR, QEXEC_F_NOROWS}},
   count : 0..MaxChunk, maxidle : 1..MaxIdle,
   fail : {"none", "compile", "pipeline"}]

\* buildRequest: r is the request built, NULL on failure (freed already)
buildRequest(w, type, indexname, args) ==
  LET rid == Len(w.areq) + 1
      r0 == [AREQ_New EXCEPT
               !.reqflags = IF type = COMMAND_SEARCH THEN {QEXEC_F_IS_SEARCH} ELSE {}]
      compiled == [r0 EXCEPT !.reqflags = @ \cup args.flags,
                             !.cursorChunkSize = args.count,
                             !.cursorMaxIdle = args.maxidle]
      compileOk == args.fail # "compile"
      thctx == compileOk /\ QEXEC_F_IS_CURSOR \in compiled.reqflags
      sctxOk == compileOk /\ indexname \in Indexes
      applyOk == sctxOk /\ args.fail # "apply"
      rc == IF applyOk /\ args.fail # "pipeline" THEN REDISMODULE_OK ELSE REDISMODULE_ERR
      status == CASE ~compileOk -> "compile error"
                  [] ~sctxOk -> "no such index"
                  [] ~applyOk -> "context error"
                  [] rc # REDISMODULE_OK -> "pipeline error"
                  [] OTHER -> ""
      obj == [(IF compileOk THEN compiled ELSE r0) EXCEPT
                !.sctx = IF applyOk THEN indexname ELSE "",
                !.thctx = IF thctx THEN "live" ELSE "none"]
      w1 == [w EXCEPT !.areq = Append(@, obj)]
      w2 == IF rc # REDISMODULE_OK THEN AREQ_Free(w1, rid) ELSE w1
      w3 == IF rc # REDISMODULE_OK /\ thctx THEN FreeThreadSafeContext(w2, rid) ELSE w2
  IN  [w |-> w3, rc |-> rc, r |-> IF rc = REDISMODULE_OK THEN rid ELSE NULL,
       status |-> status]

\* A faulty AREQ_Execute: the request is not freed after its chunk
Executed_NoFree(w, req, ch) ==
  [w |-> [w EXCEPT !.areq[req] = ch.req],
   rep |-> [NoReply EXCEPT !.kind = "array", !.rows = ch.rows, !.rc = ch.rc,
                           !.pulls = ch.pulls, !.flags = ch.req.stateflags],
   cursor |-> NULL]

\* AREQ_Execute: one unbounded chunk, then the request is freed
Executed(w, req, ch) ==
  [w |-> AREQ_Free([w EXCEPT !.areq[req] = ch.req], req),
   rep |-> [NoReply EXCEPT !.kind = "array", !.rows = ch.rows, !.rc = ch.rc,
                           !.pulls = ch.pulls, !.flags = ch.req.stateflags],
   cursor |-> NULL]

AREQ_Execute(w, req, o) ==
  Executed(w, req, sendChunk(w.areq[req], ToSizeT(-1), o))

\* startCursor up to its call of runCursor (lines 262-269)
Reserved(res, r) ==
  IF res.cursor = NULL
  THEN [w |-> res.w, rc |-> REDISMODULE_ERR, cursor |-> NULL, err |-> res.err]
  ELSE [w |-> [res.w EXCEPT !.cursors[res.cursor].execState = r,
                            !.cursors[res.cursor].sctx = r],
        rc |-> REDISMODULE_OK, cursor |-> res.cursor, err |-> ""]

startCursor(w, r) ==
  Reserved(Cursors_Reserve(w, w.areq[r].sctx, w.areq[r].cursorMaxIdle), r)

\* The error label of execCommandCommon (lines 231-239)
FreeRequest(w, r) ==
  IF r # NULL THEN AREQ_Free(w, r) ELSE w

errorExit(w, r, thctx, status) ==
  [w |-> IF thctx # NULL
         THEN FreeThreadSafeContext(FreeRequest(w, r), thctx)
         ELSE FreeRequest(w, r),
   rep |-> ReplyWithError(status), cursor |-> NULL]

\* A faulty error path: the request is not freed when startCursor fails
CursorStarted_Leak(sc, r) ==
  IF sc.rc # REDISMODULE_OK
  THEN errorExit(sc.w, NULL, r, sc.err)
  ELSE [w |-> sc.w, rep |-> [NoReply EXCEPT !.arg = sc.cursor], cursor |-> sc.cursor]

\* execCommandCommon after startCursor returned sc (lines 221-224, 229)
CursorStarted(sc, r) ==
  IF sc.rc # REDISMODULE_OK
  THEN errorExit(sc.w, r, r, sc.err)
  ELSE [w |-> sc.w, rep |-> [NoReply EXCEPT !.arg = sc.cursor], cursor |-> sc.cursor]

\* execCommandCommon after buildRequest returned b (lines 215-229)
Built(b, o) ==
  IF b.rc # REDISMODULE_OK
  THEN errorExit(b.w, b.r, NULL, b.status)
  ELSE IF QEXEC_F_IS_CURSOR \in b.w.areq[b.r].reqflags
  THEN CursorStarted(startCursor(b.w, b.r), b.r)
  ELSE AREQ_Execute(b.w, b.r, o)

\* execCommandCommon.  cursor is the cursor startCursor goes on to run.
execCommandCommon(w, argc, type, indexname, args, o) ==
  IF argc < 2
  THEN [w |-> w, rep |-> WrongArity(type), cursor |-> NULL]
  ELSE Built(buildRequest(w, type, indexname, args), o)

\* RS_GetExplainOutput
Explained(b) ==
  IF b.rc # REDISMODULE_OK
  THEN [w |-> b.w, rep |-> ReplyWithError(b.status)]
  ELSE [w |-> AREQ_Free(b.w, b.r), rep |-> [NoReply EXCEPT !.kind = "explain"]]

RS_GetExplainOutput(w, indexname, args) ==
  Explained(buildRequest(w, COMMAND_EXPLAIN, indexname, args))

-----------------------------------------------------------------------------
(* Cursor commands *)

\* The delcursor label of runCursor (lines 306-311)
Detach(w, cursor) ==
  [w EXCEPT !.cursors[cursor].execState = NULL]

\* A faulty delcursor: execState is left attached, so Cursor_Free frees the
\* request a second time
delcursor_Attached(w, cursor, req) ==
  Cursor_Free(AREQ_Free(w, req), cursor)

delcursor(w, cursor, req) ==
  Cursor_Free(Detach(AREQ_Free(w, req), cursor), cursor)

\* A faulty runCursor: after writing 0 for ITERDONE it pauses the cursor
\* instead of going to delcursor
ChunkSent_NoDispose(w, cursor, req, rep) ==
  IF QEXEC_S_ERROR \in w.areq[req].stateflags
  THEN [w |-> delcursor(w, cursor, req), rep |-> [rep EXCEPT !.cid = 0]]
  ELSE IF QEXEC_S_ITERDONE \in w.areq[req].stateflags
  THEN [w |-> Cursor_Pause(w, cursor), rep |-> [rep EXCEPT !.cid = 0]]
  ELSE [w |-> Cursor_Pause(w, cursor), rep |-> [rep EXCEPT !.cid = w.cursors[cursor].id]]

\* runCursor after sendChunk (lines 286-304), w holding the request as
\* sendChunk left it and rep the chunk sent
ChunkSent(w, cursor, req, rep) ==
  IF QEXEC_S_ERROR \in w.areq[req].stateflags
  THEN [w |-> delcursor(w, cursor, req), rep |-> [rep EXCEPT !.cid = 0]]
  ELSE IF QEXEC_S_ITERDONE \in w.areq[req].stateflags
  THEN [w |-> delcursor(w, cursor, req), rep |-> [rep EXCEPT !.cid = 0]]
  ELSE [w |-> Cursor_Pause(w, cursor), rep |-> [rep EXCEPT !.cid = w.cursors[cursor].id]]

\* runCursor from its call of sendChunk (line 284), which returned ch
RunChunk(w, cursor, req, ch) ==
  ChunkSent([w EXCEPT !.areq[req] = ch.req], cursor, req,
            [NoReply EXCEPT !.kind = "cursor", !.rows = ch.rows, !.arg = cursor,
                            !.rc = ch.rc, !.pulls = ch.pulls,
                            !.flags = ch.req.stateflags,
                            !.num = ch.req.cursorChunkSize])

\* The chunk size of runCursor (lines 276-281)
ChunkSize(num, cursorChunkSize) ==
  IF num # 0 THEN num
  ELSE IF cursorChunkSize # 0 THEN cursorChunkSize
  ELSE cursorReadSize

\* A faulty runCursor: the chunk size used is not written back
RunWith_NoWriteBack(w, cursor, req, num, o) ==
  RunChunk(w, cursor, req, sendChunk(w.areq[req], num, o))

\* runCursor once num is set (lines 282-284)
RunWith(w, cursor, req, num, o) ==
  RunChunk([w EXCEPT !.areq[req].cursorChunkSize = num], cursor, req,
           sendChunk([w.areq[req] EXCEPT !.cursorChunkSize = num], num, o))

\* runCursor
runCursor(w, cursor, num, o) ==
  RunWith(w, cursor, w.cursors[cursor].execState,
          ChunkSize(num, w.areq[w.cursors[cursor].execState].cursorChunkSize), o)

\* ConcurrentSearchCtx_ReopenKeys(&req->conc): the handler's log counts the
\* call
ConcurrentSearchCtx_ReopenKeys(rep) == [rep EXCEPT !.reopens = @ + 1]

\* A faulty cursorRead: the keys are not reopened before the chunk is run
Taken_NoReopen(t, cid, count) ==
  IF t.cursor = NULL
  THEN [w |-> t.w, rep |-> [ReplyWithError("Cursor not found") EXCEPT !.arg = cid],
        cursor |-> NULL, num |-> 0]
  ELSE [w |-> t.w, rep |-> [NoReply EXCEPT !.arg = cid], cursor |-> t.cursor,
        num |-> count]

\* cursorRead up to its call of runCursor (lines 319-326)
Taken(t, cid, count) ==
  IF t.cursor = NULL
  THEN [w |-> t.w, rep |-> [ReplyWithError("Cursor not found") EXCEPT !.arg = cid],
        cursor |-> NULL, num |-> 0]
  ELSE [w |-> t.w, rep |-> ConcurrentSearchCtx_ReopenKeys([NoReply EXCEPT !.arg = cid]),
        cursor |-> t.cursor, num |-> count]

\* A faulty cursorRead: the cursor is looked up without taking its lease
cursorRead_NoLease(w, cid, count) ==
  Taken([w |-> w, cursor |-> IF cid \in DOMAIN w.cursors THEN cid ELSE NULL],
        cid, count)

cursorRead(w, cid, count) ==
  Taken(Cursors_TakeForExecution(w, cid), cid, count)

\* An argument that RedisModule_StringToLongLong parses, and one it does not
IntArg(n) == [ok |-> TRUE, v |-> n]
BadArg == [ok |-> FALSE, v |-> 0]

\* toupper on the letters the subcommands use
toupper(ch) ==
  CASE ch = "r" -> "R" [] ch = "d" -> "D" [] ch = "g" -> "G" [] OTHER -> ch

\* A reply of RSCursorCommand that leaves the registry as it is
Replied(w, rep) == [w |-> w, rep |-> rep, cursor |-> NULL, num |-> 0]

\* A faulty D branch: the return of Cursors_Purge is not tested
Purged_Unchecked(p, cid) ==
  Replied(p.w, [ReplyWithSimpleString("OK") EXCEPT !.arg = cid])

\* The D branch of RSCursorCommand (lines 361-367)
Purged(p, cid) ==
  Replied(p.w, [(IF p.rc # REDISMODULE_OK
                 THEN ReplyWithError("Cursor does not exist")
                 ELSE ReplyWithSimpleString("OK")) EXCEPT !.arg = cid])

\* A faulty G branch: it replies REDISMODULE_OK, not the number collected
Collected_Status(g) == Replied(g.w, ReplyWithLongLong(0))

\* The G branch of RSCursorCommand (lines 369-371)
Collected(g) == Replied(g.w, ReplyWithLongLong(g.rc))

\* A faulty dispatch: the G branch replies without running the collection
Dispatch_NoCollect(w, argv, cid, cmdc) ==
  IF cmdc = "R"
  THEN IF Len(argv) > 5 /\ ~argv[6].ok
       THEN Replied(w, ReplyWithError("Bad value for COUNT"))
       ELSE cursorRead(w, cid, IF Len(argv) > 5 THEN ToSizeT(argv[6].v) ELSE 0)
  ELSE IF cmdc = "D"
  THEN Purged(Cursors_Purge(w, cid), cid)
  ELSE IF cmdc = "G"
  THEN Replied(w, ReplyWithLongLong(0))
  ELSE Replied(w, ReplyWithError("Unknown subcommand"))

\* RSCursorCommand once the cursor id is parsed (lines 348-375)
Dispatch(w, argv, cid, cmdc) ==
  IF cmdc = "R"
  THEN IF Len(argv) > 5 /\ ~argv[6].ok
       THEN Replied(w, ReplyWithError("Bad value for COUNT"))
       ELSE cursorRead(w, cid, IF Len(argv) > 5 THEN ToSizeT(argv[6].v) ELSE 0)
  ELSE IF cmdc = "D"
  THEN Purged(Cursors_Purge(w, cid), cid)
  ELSE IF cmdc = "G"
  THEN Collected(Cursors_CollectIdle(w))
  ELSE Replied(w, ReplyWithError("Unknown subcommand"))

\* A faulty RSCursorCommand: the cursor id is parsed by the subcommands that
\* use it, after the dispatch
RSCursorCommand_DispatchFirst(w, argv) ==
  IF Len(argv) < 4
  THEN Replied(w, WrongArity(argv[1]))
  ELSE IF toupper(argv[2][1]) \in {"R", "D"} /\ ~argv[4].ok
  THEN Replied(w, ReplyWithError("Bad cursor ID"))
  ELSE Dispatch(w, argv, argv[4].v, toupper(argv[2][1]))

\* RSCursorCommand.  argv is FT.CURSOR, the subcommand (its letters), the
\* index, the cursor id, COUNT, the count; argv[i] of the C code is
\* argv[i + 1] here.
RSCursorCommand(w, argv) ==
  IF Len(argv) < 4
  THEN Replied(w, WrongArity(argv[1]))
  ELSE IF ~argv[4].ok
  THEN Replied(w, ReplyWithError("Bad cursor ID"))
  ELSE Dispatch(w, argv, argv[4].v, toupper(argv[2][1]))

-----------------------------------------------------------------------------
(* The state machine *)

Init ==
  /\ docs \in {[i \in Indexes |-> n] : n \in 0..MaxResults}
  /\ areq = <<>>
  /\ cursors = [c \in {} |-> NULL]
  /\ used = [i \in Indexes |-> 0]
  /\ nextCid = 1
  /\ cli = [c \in Clients |-> [pc |-> "idle", cursor |-> NULL, num |-> 0]]
  /\ reply = NoReply
  /\ recv = <<>>

Commit(w) ==
  /\ areq' = w.areq
  /\ cursors' = w.cursors
  /\ used' = w.used
  /\ nextCid' = w.nextCid

Suspend(c, cursor, num) ==
  cli' = IF cursor # NULL
         THEN [cli EXCEPT ![c] = [pc |-> "run", cursor |-> cursor, num |-> num]]
         ELSE cli

\* The invocations of FT.SEARCH and FT.AGGREGATE: argc, the command, the
\* index named, the query's arguments and the pipeline's behaviour.  Only a
\* request that runs (no cursor, build succeeds) meets the pipeline here;
\* a cursor's pipeline answers in RunCursor.
ExecInputs ==
  {<<1, COMMAND_SEARCH, "idx", CHOOSE a \in QueryArgs : TRUE, NoFault>>}
  \cup {<<3, COMMAND_AGGREGATE, indexname, args, NoFault>> :
          indexname \in Indexes \cup {"nosuch"},
          args \in {a \in QueryArgs : a.fail # "none" \/ QEXEC_F_IS_CURSOR \in a.flags}}
  \cup {<<3, COMMAND_SEARCH, indexname, args, NoFault>> :
          indexname \in Indexes \cup {"nosuch"},
          args \in {a \in QueryArgs : /\ a.fail # "none" \/ QEXEC_F_IS_CURSOR \in a.flags
                                      /\ QEXEC_F_NOROWS \notin a.flags}}
  \cup {<<3, type, indexname, args, o>> :
          type \in {COMMAND_AGGREGATE, COMMAND_SEARCH},
          indexname \in Indexes,
          args \in {a \in QueryArgs : a.fail = "none" /\ QEXEC_F_IS_CURSOR \notin a.flags},
          o \in Oracles}

Executes(c, res) ==
  /\ Commit(res.w)
  /\ Suspend(c, res.cursor, 0)
  /\ reply' = res.rep
  /\ recv' = IF res.cursor # NULL THEN Append(recv, <<>>) ELSE recv

\* FT.SEARCH and FT.AGGREGATE (RSSearchCommand, RSAggregateCommand).  A
\* WITHCURSOR request that reserved its cursor goes on in RunCursor.
ExecCommandOf(c, inputs) ==
  /\ cli[c].pc = "idle"
  /\ \E in \in inputs :
       /\ in[1] >= 2 => Len(areq) < MaxReq
       /\ Executes(c, execCommandCommon(World, in[1], in[2], in[3], in[4], in[5]))
  /\ UNCHANGED docs

ExecCommand(c) == ExecCommandOf(c, ExecInputs)

Explains(res) ==
  /\ Commit(res.w)
  /\ reply' = res.rep

\* FT.EXPLAIN
Explain(c) ==
  /\ cli[c].pc = "idle"
  /\ Len(areq) < MaxReq
  /\ \E indexname \in Indexes \cup {"nosuch"}, args \in QueryArgs :
       Explains(RS_GetExplainOutput(World, indexname, args))
  /\ UNCHANGED <<docs, cli, recv>>

Runs(c, res) ==
  /\ Commit(res.w)
  /\ reply' = [res.rep EXCEPT !.count = cli[c].num]
  /\ recv' = [recv EXCEPT ![cli[c].cursor] = @ \o res.rep.rows]

\* The handler of c goes on with runCursor on the cursor it holds
RunCursor(c) ==
  /\ cli[c].pc = "run"
  /\ \E o \in Oracles :
       Runs(c, runCursor(World, cli[c].cursor, cli[c].num, o))
  /\ cli' = [cli EXCEPT ![c] = [pc |-> "idle", cursor |-> NULL, num |-> 0]]
  /\ UNCHANGED docs

READ == <<"R", "E", "A", "D">>
DEL == <<"D", "E", "L">>
GC == <<"G", "C">>
Subcommands == {READ, DEL, GC, <<"d", "e", "l">>, <<"F", "O", "O">>}
CidArgs == {IntArg(n) : n \in 1..MaxReq} \cup {BadArg}
CountArgs == {IntArg(n) : n \in 0..MaxChunk} \cup {BadArg}

\* The argument vectors of FT.CURSOR: argc 3, 4 and 6
CursorArgvs ==
  {<<"FT.CURSOR", sub, "idx">> : sub \in Subcommands}
  \cup {<<"FT.CURSOR", sub, "idx", a3>> : sub \in Subcommands, a3 \in CidArgs}
  \cup {<<"FT.CURSOR", READ, "idx", a3, "COUNT", a5>> :
          a3 \in CidArgs, a5 \in CountArgs}

\* A DEL that finds its cursor Leased waits for the lessee
DelWaits(argv) ==
  /\ Len(argv) >= 4
  /\ argv[4].ok
  /\ toupper(argv[2][1]) = "D"
  /\ argv[4].v \in DOMAIN cursors
  /\ cursors[argv[4].v].state = "Leased"

Commands(c, res) ==
  /\ Commit(res.w)
  /\ Suspend(c, res.cursor, res.num)
  /\ reply' = res.rep

\* FT.CURSOR given argv.  A READ that took its cursor goes on in RunCursor.
CursorCommandWith(c, argv) ==
  /\ cli[c].pc = "idle"
  /\ ~DelWaits(argv)
  /\ Commands(c, RSCursorCommand(World, argv))
  /\ UNCHANGED <<docs, recv>>

CursorCommand(c) == \E argv \in CursorArgvs : CursorCommandWith(c, argv)

\* Time passes: every cursor has been unused for one tick more
Tick ==
  /\ cursors' = [c \in DOMAIN cursors |->
                   IF cursors[c].state = "Paused"
                   THEN [cursors[c] EXCEPT !.idle = Min(@ + 1, cursors[c].maxIdle)]
                   ELSE cursors[c]]
  /\ reply' = NoReply
  /\ UNCHANGED <<docs, areq, used, nextCid, cli, recv>>

Next ==
  \/ \E c \in Clients : ExecCommand(c)
  \/ \E c \in Clients : Explain(c)
  \/ \E c \in Clients : RunCursor(c)
  \/ \E c \in Clients : CursorCommand(c)
  \/ Tick

Spec == Init /\ [][Next]_vars

-----------------------------------------------------------------------------
(* Properties *)

\* The handler of c runs runCursor in this step
RunCursorStep(c) == cli[c].pc = "run" /\ cli'[c].pc = "idle"

\* The requests allocated so far, the cursor ids handed out so far
Allocated == 1..Len(areq)
Issued == 1..(nextCid - 1)

\* The cursors a request is attached to
AttachedTo(rid) == {c \in DOMAIN cursors : cursors[c].execState = rid}

\* The clients whose handler holds the lease of cursor cid
Lessees(cid) == {c \in Clients : cli[c].pc = "run" /\ cli[c].cursor = cid}

\* Paused with last_used + max_idle <= now
Expired(cid) ==
  cursors[cid].state = "Paused" /\ cursors[cid].idle >= cursors[cid].maxIdle

\* Cursor ids are not handed out twice
IdsFresh ==
  /\ nextCid' >= nextCid
  /\ DOMAIN cursors' \subseteq DOMAIN cursors \cup (nextCid..(nextCid' - 1))

\* C1: every AREQ a command allocated has AREQ_Free applied to it exactly
\* once: never twice, and once as soon as it is no longer the execution
\* state of a cursor in the registry (its command has finished, failed, or
\* its cursor was disposed by runCursor, DEL or GC); a request still
\* attached to a live cursor has not been freed.
C1_FreedExactlyOnce ==
  \A rid \in Allocated :
    /\ areq[rid].freed = IF AttachedTo(rid) = {} THEN 1 ELSE 0
    /\ Cardinality(AttachedTo(rid)) <= 1

\* Two requests, each freed once: the later chunk of a cursor, whose first
\* chunk had left it Paused, has just disposed it and freed its request
C1_Witness ==
  /\ reply.kind = "cursor" /\ reply.cid = 0
  /\ Len(recv[reply.arg]) >= 1 /\ reply.rows = <<>>
  /\ Len(areq) = 2
  /\ \A rid \in Allocated : areq[rid].freed = 1

\* What a READ of a leased cursor must answer: the error, nothing changed,
\* no handler started
ReadRefused(res) ==
  /\ res.rep.kind = "error" /\ res.rep.err = "Cursor not found"
  /\ res.w = World
  /\ res.cursor = NULL

\* C2: a cursor is leased to at most one caller: a Leased cursor is held by
\* exactly one handler, a handler holds only a Leased cursor of the
\* registry, and while it is Leased every TakeForExecution on its id fails
\* and every CURSOR READ of it replies "Cursor not found" and leaves the
\* requests and the registry untouched.
C2_LeaseExclusive ==
  /\ \A c \in Clients : cli[c].pc = "run" =>
       /\ cli[c].cursor \in DOMAIN cursors
       /\ cursors[cli[c].cursor].state = "Leased"
  /\ \A cid \in DOMAIN cursors : cursors[cid].state = "Leased" =>
       /\ Cardinality(Lessees(cid)) = 1
       /\ Cursors_TakeForExecution(World, cid).cursor = NULL
       /\ ReadRefused(RSCursorCommand(World, <<"FT.CURSOR", READ, "idx", IntArg(cid)>>))
       /\ \A n \in 0..MaxChunk :
            ReadRefused(RSCursorCommand(World,
              <<"FT.CURSOR", READ, "idx", IntArg(cid), "COUNT", IntArg(n)>>))

\* A READ has just been refused on a cursor another handler holds
C2_Witness ==
  /\ reply.kind = "error" /\ reply.err = "Cursor not found"
  /\ reply.arg \in DOMAIN cursors
  /\ cursors[reply.arg].state = "Leased"
  /\ Cardinality(Lessees(reply.arg)) = 1

\* What runCursor must have done to the cursor cid and its request rid
RunCursorReply(cid, rid) ==
  /\ reply'.kind = "cursor" /\ reply'.arg = cid
  /\ (reply'.cid = 0) <=> (cid \notin DOMAIN cursors' /\ areq'[rid].freed = 1)
  /\ (reply'.cid = 0) <=>
       (reply'.flags \cap {QEXEC_S_ERROR, QEXEC_S_ITERDONE} # {})
  /\ reply'.cid # 0 =>
       /\ reply'.cid = cursors[cid].id
       /\ cid \in DOMAIN cursors'
       /\ cursors'[cid] = [cursors[cid] EXCEPT !.state = "Paused", !.idle = 0]
       /\ areq'[rid].freed = 0

\* C3: in every run of runCursor the second element of the reply is 0
\* exactly when the cursor has left the registry and its request is freed,
\* which is exactly when ERROR or ITERDONE is set after the chunk; otherwise
\* it is the cursor's id, and the cursor is Paused with last_used set to now
\* and its request kept.
C3_ReplyCid ==
  [][\A c \in Clients : RunCursorStep(c) =>
       RunCursorReply(cli[c].cursor, cursors[cli[c].cursor].execState)]_vars

\* runCursor has disposed, with 0, a cursor that earlier chunks had left
\* Paused under its id, while another cursor is Paused
C3_Witness ==
  /\ reply.kind = "cursor" /\ reply.cid = 0
  /\ QEXEC_S_ITERDONE \in reply.flags
  /\ reply.arg \notin DOMAIN cursors
  /\ Len(recv[reply.arg]) >= 1 /\ reply.rows = <<>>
  /\ \E cid \in DOMAIN cursors : cursors[cid].state = "Paused"

\* C4: the per-index counter is the number of live cursors of the index,
\* every cursor of the registry is Paused or Leased, and the counter never
\* exceeds the configured cap.
C4_CountWithinCap ==
  /\ \A cid \in DOMAIN cursors : cursors[cid].state \in {"Paused", "Leased"}
  /\ \A i \in Indexes :
       /\ used[i] = Cardinality({cid \in DOMAIN cursors : cursors[cid].specName = i})
       /\ used[i] <= cursorMaxPerIndex

\* After a DEL of the first cursor, the second one fills its index's cap
C4_Witness ==
  /\ reply.kind = "string" /\ reply.arg = 1
  /\ DOMAIN cursors = {2}
  /\ used[cursors[2].specName] = cursorMaxPerIndex

\* The WITHCURSOR requests that build
CursorQueries ==
  {a \in QueryArgs : a.fail = "none" /\ QEXEC_F_IS_CURSOR \in a.flags}

\* The reply of a WITHCURSOR request at the cap: the error and nothing else
CapExceeded(rep) ==
  /\ rep.kind = "error" /\ rep.err = "CursorCapExceeded"
  /\ rep.rows = <<>> /\ rep.pulls = 0 /\ rep.cid = -1

\* A step that replied CursorCapExceeded
CapExceededStep ==
  /\ CapExceeded(reply')
  /\ cursors' = cursors /\ used' = used /\ nextCid' = nextCid
  /\ cli' = cli /\ recv' = recv
  /\ Len(areq') = Len(areq) + 1
  /\ \A rid \in Allocated : areq'[rid] = areq[rid]
  /\ areq'[Len(areq')].freed = 1
  /\ areq'[Len(areq')].thctx = "freed"

\* C5: a WITHCURSOR request on an index at its cap is answered with the
\* CursorCapExceeded error only; the step that replies it sends no chunk,
\* makes no call of Next, frees the request and its thread-safe context
\* (once each), starts no handler, and leaves the cursor set, the counters
\* and the id counter as they were.
C5_CapExceeded ==
  /\ [](\A i \in Indexes : used[i] >= cursorMaxPerIndex =>
          \A type \in {COMMAND_AGGREGATE, COMMAND_SEARCH}, a \in CursorQueries :
            CapExceeded(execCommandCommon(World, 3, type, i, a, NoFault).rep))
  /\ [][reply'.err = "CursorCapExceeded" => CapExceededStep]_vars

\* The error has been replied while the first cursor is still live
C5_Witness ==
  /\ reply.kind = "error" /\ reply.err = "CursorCapExceeded"
  /\ DOMAIN cursors = {1}
  /\ used[cursors[1].specName] = cursorMaxPerIndex
  /\ Len(areq) = 2 /\ areq[2].freed = 1 /\ areq[2].thctx = "freed"

\* r1..rn, the first n results in pipeline order
FirstResults(n) == [k \in 1..n |-> Result(k).docId]

\* What a chunk of at most size rows must add to the rows received from
\* cursor cid, whose request is rid and whose pipeline yields n results
ChunkReceived(cid, rid, n, size) ==
  /\ recv'[cid] = recv[cid] \o reply'.rows
  /\ Len(reply'.rows) <= size
  /\ Len(recv'[cid]) <= n
  /\ recv'[cid] = FirstResults(Len(recv'[cid]))
  /\ reply'.cid # 0 =>
       /\ Len(reply'.rows) = size
       /\ areq'[rid].pos = Len(recv'[cid])
  /\ (reply'.cid = 0 /\ reply'.rc = RS_RESULT_EOF) => recv'[cid] = FirstResults(n)

\* The chunk size runCursor uses for a request with this cursorChunkSize
SizeOfChunk(num, req) ==
  IF num # 0 THEN num
  ELSE IF req.cursorChunkSize # 0 THEN req.cursorChunkSize ELSE cursorReadSize

\* C6: for a cursor with NOROWS unset the rows of its chunks, in the order
\* received, are r1, r2, ... in pipeline order with none repeated and none
\* skipped; a chunk never has more rows than its chunk size and has exactly
\* that many when it returns the cursor's id; the pipeline has handed out no
\* result that was not sent; and the reply with cursor id 0 of a pipeline
\* that ran to Eof completes r1..rN.
C6_ChunksConcatenate ==
  [][\A c \in Clients :
       (/\ RunCursorStep(c)
        /\ QEXEC_F_NOROWS \notin areq[cursors[cli[c].cursor].execState].reqflags)
       => ChunkReceived(cli[c].cursor, cursors[cli[c].cursor].execState,
                        docs[areq[cursors[cli[c].cursor].execState].sctx],
                        SizeOfChunk(cli[c].num,
                                    areq[cursors[cli[c].cursor].execState]))]_vars

\* A cursor read to the end in chunks of one row: the third reply, empty,
\* carried 0, after two chunks of one row each
C6_Witness ==
  /\ reply.kind = "cursor" /\ reply.cid = 0 /\ reply.rc = RS_RESULT_EOF
  /\ reply.rows = <<>>
  /\ docs["idx"] = MaxResults
  /\ recv[reply.arg] = FirstResults(MaxResults)
  /\ reply.pulls = 1

\* A collection pass, a READ and a DEL of cursor cid, by some client
GCPass == \E c \in Clients : CursorCommandWith(c, <<"FT.CURSOR", GC, "idx", IntArg(1)>>)
ReadPass(cid) ==
  \E c \in Clients : CursorCommandWith(c, <<"FT.CURSOR", READ, "idx", IntArg(cid)>>)
DelPass(cid) ==
  \E c \in Clients : CursorCommandWith(c, <<"FT.CURSOR", DEL, "idx", IntArg(cid)>>)

\* The life of cursors: the commands that start, read, delete and collect
\* them, the handlers' chunks and the passing of time
CursorInputs ==
  {<<3, COMMAND_AGGREGATE, indexname, args, NoFault>> :
     indexname \in Indexes, args \in CursorQueries}

CursorNext ==
  \/ \E c \in Clients : ExecCommandOf(c, CursorInputs)
  \/ \E c \in Clients : RunCursor(c)
  \/ \E cid \in 1..MaxReq : ReadPass(cid)
  \/ \E cid \in 1..MaxReq : DelPass(cid)
  \/ GCPass
  \/ Tick

\* The handler of c returns: the steps of RunCursor(c), by what they do to
\* the handler
Returns(c) ==
  /\ cli[c].pc = "run"
  /\ cli' = [cli EXCEPT ![c] = [pc |-> "idle", cursor |-> NULL, num |-> 0]]

\* Handlers run to their end
FairHandlers == \A c \in Clients : WF_cli(Returns(c))
\* Time advances and collection passes keep being run
FairGC == WF_vars(Tick) /\ WF_vars(GCPass)
\* Clients keep reading their cursors
FairReads == \A cid \in 1..MaxReq : SF_vars(ReadPass(cid))

LiveSpec == Init /\ [][CursorNext]_vars /\ FairHandlers /\ (FairReads \/ FairGC)

\* C7: under fairness of the clients' READs, or of collection passes and
\* advancing time, every cursor whose id was returned to a client (it was
\* left Paused) eventually leaves the registry.
C7_EventuallyDisposed ==
  \A cid \in 1..MaxReq :
    (cid \in DOMAIN cursors /\ cursors[cid].state = "Paused")
      ~> (cid \notin DOMAIN cursors)

\* A collection pass has disposed a cursor that had been returned to its
\* client and had idled for its max idle time
C7_Witness ==
  /\ reply.kind = "int" /\ reply.num >= 1
  /\ \E cid \in Issued : cid \notin DOMAIN cursors /\ Len(recv[cid]) >= 1

\* What a step that replied an integer (a collection pass) must have done
CollectedStep ==
  /\ DOMAIN cursors' = {cid \in DOMAIN cursors : ~Expired(cid)}
  /\ \A cid \in DOMAIN cursors' : cursors'[cid] = cursors[cid]
  /\ reply'.num = Cardinality({cid \in DOMAIN cursors : Expired(cid)})
  /\ \A cid \in DOMAIN cursors : Expired(cid) =>
       areq'[cursors[cid].execState].freed = 1
  /\ reply.kind = "int" => reply'.num = 0

\* C8: a collection pass disposes exactly the cursors that are Paused with
\* last_used + max_idle <= now, leaves every other cursor as it was, and
\* replies the number it disposed; a pass that directly follows a pass
\* replies 0; a collected id is never handed out again, and a READ of an
\* id that is not in the registry replies "Cursor not found".
C8_CollectIdle ==
  /\ [][reply'.kind = "int" => CollectedStep]_vars
  /\ [][IdsFresh]_vars
  /\ [](\A cid \in Issued \ DOMAIN cursors :
          ReadRefused(RSCursorCommand(World, <<"FT.CURSOR", READ, "idx", IntArg(cid)>>)))

\* A pass has collected one cursor and left one that is Leased although its
\* idle time has run out
C8_Witness ==
  /\ reply.kind = "int" /\ reply.num = 1
  /\ \E cid \in DOMAIN cursors :
       cursors[cid].state = "Leased" /\ cursors[cid].idle >= cursors[cid].maxIdle

\* The reply of a DEL of cursor id cid
DelReply(cid) ==
  RSCursorCommand(World, <<"FT.CURSOR", DEL, "idx", IntArg(cid)>>)

\* C9: a DEL of an id that is not in the registry replies "Cursor does not
\* exist" and changes nothing; a DEL of a Paused cursor replies OK, removes
\* that cursor only and frees its request; an id that left the registry
\* never enters it again, so every later DEL of it replies the error.
C9_Del ==
  /\ [](\A cid \in 1..MaxReq : cid \notin DOMAIN cursors =>
          /\ DelReply(cid).rep.kind = "error"
          /\ DelReply(cid).rep.err = "Cursor does not exist"
          /\ DelReply(cid).w = World)
  /\ [](\A cid \in DOMAIN cursors : cursors[cid].state = "Paused" =>
          /\ DelReply(cid).rep.kind = "string"
          /\ DelReply(cid).rep.err = "OK"
          /\ DOMAIN DelReply(cid).w.cursors = DOMAIN cursors \ {cid}
          /\ DelReply(cid).w.areq[cursors[cid].execState].freed = 1)
  /\ [][reply'.err = "Cursor does not exist" =>
          /\ reply'.kind = "error"
          /\ reply'.arg \notin DOMAIN cursors
          /\ UNCHANGED <<docs, areq, cursors, used, nextCid, cli, recv>>]_vars
  /\ [][reply'.kind = "string" =>
          /\ reply'.arg \in DOMAIN cursors
          /\ DOMAIN cursors' = DOMAIN cursors \ {reply'.arg}
          /\ \A cid \in DOMAIN cursors' : cursors'[cid] = cursors[cid]
          /\ used' = [used EXCEPT ![cursors[reply'.arg].specName] = @ - 1]]_vars
  /\ [][DOMAIN cursors' \subseteq DOMAIN cursors \cup (nextCid..(nextCid' - 1))]_vars

\* A DEL of an id that had been handed out and disposed has been answered
\* with the error, another cursor being live
C9_Witness ==
  /\ reply.kind = "error" /\ reply.err = "Cursor does not exist"
  /\ reply.arg \in Issued
  /\ reply.arg \notin DOMAIN cursors
  /\ DOMAIN cursors # {}

\* C10: FT.CURSOR GC <index>, given the subcommand and the index only, runs
\* the idle collection and replies the number of cursors reclaimed.
C10_GcWithIndexOnly ==
  [][\A c \in Clients :
       CursorCommandWith(c, <<"FT.CURSOR", GC, "idx">>) =>
         /\ reply'.kind = "int"
         /\ reply'.num = Cardinality({cid \in DOMAIN cursors : Expired(cid)})
         /\ DOMAIN cursors' = {cid \in DOMAIN cursors : ~Expired(cid)}]_vars

-----------------------------------------------------------------------------
(* The reply serializer on its own: sendChunk and serializeResult called    *)
(* once on a request, for every setting of the request's flags.  areq holds *)
(* the request, docs the results its pipeline yields, reply the call made   *)
(* and what it wrote.                                                       *)

MaxStr == 2       \* longest sort-key string
MaxNum == 10      \* largest sort-key number, in absolute value

SerializeFlags ==
  {QEXEC_F_IS_SEARCH, QEXEC_F_SEND_SCORES, QEXEC_F_SEND_PAYLOADS,
   QEXEC_F_SEND_SORTKEYS, QEXEC_F_SEND_NOFIELDS, QEXEC_F_NOROWS}

\* The requests as buildRequest leaves them, on index idx
ChunkRequests ==
  {[AREQ_New EXCEPT !.reqflags = f, !.hasArrange = a, !.sctx = "idx"] :
     f \in SUBSET SerializeFlags, a \in BOOLEAN}

\* The limits given to sendChunk: none, one row, two rows, unbounded
Limits == {0, 1, 2, ToSizeT(-1)}

Bytes == {"#", "$", "a", NUL}
Strings == UNION {[1..n -> Bytes] : n \in 0..MaxStr}
Numbers == (-MaxNum)..MaxNum

\* The values a sort key can have
SortKeys ==
  {NoValue, [t |-> "Array", v |-> <<>>]}
  \cup {[t |-> "Number", v |-> n] : n \in Numbers}
  \cup {[t |-> ty, v |-> str] : ty \in {"String", "RedisString"}, str \in Strings}

\* The lookup keys of the last scope and their values in a row
FieldRows ==
  {<<>>,
   <<[name |-> "a", hidden |-> FALSE, v |-> 1]>>,
   <<[name |-> "a", hidden |-> FALSE, v |-> 1], [name |-> "b", hidden |-> TRUE, v |-> 2]>>}

\* Document metadata: absent, without payload, with payload
Metadata ==
  {[present |-> FALSE, key |-> 0, payload |-> NoValue],
   [present |-> TRUE, key |-> 1, payload |-> NoValue],
   [present |-> TRUE, key |-> 1, payload |-> [t |-> "Payload", v |-> 7]]}

\* The results serializeResult is called on
Results ==
  {[Result(1) EXCEPT !.sortkey = k] : k \in SortKeys}
  \cup {[Result(1) EXCEPT !.dmd = m, !.fields = f] : m \in Metadata, f \in FieldRows}

ChunkInit ==
  /\ docs \in {[i \in Indexes |-> n] : n \in 0..MaxResults}
  /\ areq \in {<<req>> : req \in ChunkRequests}
  /\ cursors = [c \in {} |-> NULL]
  /\ used = [i \in Indexes |-> 0]
  /\ nextCid = 1
  /\ cli = [c \in Clients |-> [pc |-> "idle", cursor |-> NULL, num |-> 0]]
  /\ reply = NoReply
  /\ recv = <<>>

ChunkCalled(req, limit, o, ch) ==
  /\ areq' = <<ch.req>>
  /\ reply' = [kind |-> "chunk", req |-> req, limit |-> limit, o |-> o, ch |-> ch]

\* sendChunk(req, outctx, limit) is called on the request
CallSendChunk ==
  /\ reply.kind = "none"
  /\ \E limit \in Limits, o \in Oracles :
       ChunkCalled(areq[1], limit, o, sendChunk(areq[1], limit, o))
  /\ UNCHANGED <<docs, cursors, used, nextCid, cli, recv>>

\* serializeResult(req, outctx, r) is called on the request and a result
CallSerializeResult ==
  /\ reply.kind = "none"
  /\ \E r \in Results :
       reply' = [kind |-> "result", req |-> areq[1], r |-> r,
                 ser |-> serializeResult(areq[1], r)]
  /\ UNCHANGED <<docs, areq, cursors, used, nextCid, cli, recv>>

ChunkNext == CallSendChunk \/ CallSerializeResult

ChunkSpec == ChunkInit /\ [][ChunkNext]_vars

-----------------------------------------------------------------------------
(* Properties of the serializer *)

\* What every reply array of sendChunk must be
ChunkReply(ch, limit) ==
  /\ Len(ch.elems) >= 1
  /\ ch.elems[1] = [k |-> "int", v |-> <<ch.req.totalResults>>]
  /\ \A i \in 2..Len(ch.elems) : ch.elems[i].k # "int"
  /\ limit = 0 => (ch.nelem = 1 /\ Len(ch.elems) = 1 /\ ch.rows = <<>>)
  /\ (ch.pulls = 1 /\ ch.rc = RS_RESULT_EOF) =>
       /\ ch.nelem = 1 /\ Len(ch.elems) = 1 /\ ch.rows = <<>>
       /\ QEXEC_S_ITERDONE \in ch.req.stateflags
       /\ QEXEC_S_ERROR \notin ch.req.stateflags

\* C11: every reply of sendChunk has total_results as its first element and
\* no second integer at the top level, whatever the first pull returned;
\* with limit 0 the array is closed with length 1 and holds that element
\* only; when the first pull returns Eof the array has length 1 and no rows,
\* ITERDONE is set and ERROR is not.
C11_TotalResultsFirst ==
  reply.kind = "chunk" => ChunkReply(reply.ch, reply.limit)

\* sendChunk was called with limit 0 on a pipeline of MaxResults results:
\* its one pull returned Ok and the array holds total_results only
C11_Witness ==
  /\ reply.kind = "chunk" /\ reply.limit = 0
  /\ docs["idx"] = MaxResults
  /\ reply.ch.rc = RS_RESULT_OK /\ reply.ch.pulls = 1
  /\ reply.ch.elems = <<[k |-> "int", v |-> <<MaxResults>>]>>
  /\ reply.ch.nelem = 1

\* The sections a result must contribute, in order, each with the kinds of
\* element it may be written as
Sections(req, r) ==
  (IF QEXEC_F_IS_SEARCH \in req.reqflags /\ r.dmd.present
   THEN <<{"string"}>> ELSE <<>>)
  \o (IF QEXEC_F_SEND_SCORES \in req.reqflags THEN <<{"double"}>> ELSE <<>>)
  \o (IF QEXEC_F_SEND_PAYLOADS \in req.reqflags
      THEN <<IF r.dmd.present /\ r.dmd.payload # NoValue
             THEN {"string"} ELSE {"null"}>>
      ELSE <<>>)
  \o (IF QEXEC_F_SEND_SORTKEYS \in req.reqflags
      THEN <<IF req.hasArrange /\ r.sortkey.t \in {"Number", "String", "RedisString"}
             THEN {"string"} ELSE {"null"}>>
      ELSE <<>>)
  \o (IF QEXEC_F_SEND_NOFIELDS \notin req.reqflags THEN <<{"array"}>> ELSE <<>>)

SectionsWritten(req, r, ser) ==
  /\ Len(ser.out) = Len(Sections(req, r))
  /\ \A i \in 1..Len(ser.out) : ser.out[i].k \in Sections(req, r)[i]
  /\ ser.count = Len(ser.out)

\* C12: for every combination of IS_SEARCH, SEND_SCORES, SEND_PAYLOADS,
\* SEND_SORTKEYS, SEND_NOFIELDS and presence of metadata, serializeResult
\* writes exactly the sections whose condition holds, in the order key,
\* score, payload (or null), sort key (or null), field array, and returns
\* their number; sendChunk closes its array with 1 plus the sum of what the
\* serializer returned, so the declared length is the number of elements
\* written.
C12_DeclaredLength ==
  /\ reply.kind = "result" => SectionsWritten(reply.req, reply.r, reply.ser)
  /\ reply.kind = "chunk" =>
       /\ reply.ch.nelem = Len(reply.ch.elems)
       /\ reply.ch.nelem =
            1 + Len(reply.ch.rows) * Len(Sections(reply.req, Result(1)))

\* A search result with metadata but no payload serialized with all five
\* sections: key, score, a null for the payload, sort key, fields
C12_Witness ==
  /\ reply.kind = "result"
  /\ reply.req.reqflags = {QEXEC_F_IS_SEARCH, QEXEC_F_SEND_SCORES,
                           QEXEC_F_SEND_PAYLOADS, QEXEC_F_SEND_SORTKEYS}
  /\ reply.req.hasArrange
  /\ reply.r.dmd.present /\ reply.r.dmd.payload = NoValue
  /\ reply.ser.count = 5
  /\ reply.ser.out[3].k = "null"

\* The reply to a search that matched two documents and ran to the end of
\* its pipeline, as sendChunk(req, -1) writes it for AREQ_Execute
SearchOfTwo(flags) ==
  /\ reply.kind = "chunk"
  /\ reply.req.reqflags = flags
  /\ reply.limit = ToSizeT(-1) /\ reply.o = NoFault
  /\ docs["idx"] = 2

KeyOf(i) == [k |-> "string", v |-> <<i>>]
ScoreOf(i) == [k |-> "double", v |-> <<i>>]
FieldsOf(i) == [k |-> "array", v |-> <<"f", i>>]
TotalOf(n) == [k |-> "int", v |-> <<n>>]

\* C13 as stated: a search request with SEND_SCORES as its only
\* serialization flag replies with two elements per result, key then score:
\* five elements for two documents.
C13_KeyAndScoreOnly ==
  SearchOfTwo({QEXEC_F_IS_SEARCH, QEXEC_F_SEND_SCORES}) =>
    /\ reply.ch.nelem = 5
    /\ reply.ch.elems = <<TotalOf(2), KeyOf(1), ScoreOf(1), KeyOf(2), ScoreOf(2)>>

\* C13, amended: a search request with SEND_SCORES as its only serialization
\* flag replies with three elements per result, its key, its score and its
\* field array (SEND_NOFIELDS is not set): seven elements for two documents.
\* With SEND_NOFIELDS also set each result contributes key and score only,
\* five elements in all.
C13_KeyScoreFields ==
  /\ SearchOfTwo({QEXEC_F_IS_SEARCH, QEXEC_F_SEND_SCORES}) =>
       /\ reply.ch.nelem = 7
       /\ reply.ch.elems = <<TotalOf(2), KeyOf(1), ScoreOf(1), FieldsOf(1),
                             KeyOf(2), ScoreOf(2), FieldsOf(2)>>
  /\ SearchOfTwo({QEXEC_F_IS_SEARCH, QEXEC_F_SEND_SCORES, QEXEC_F_SEND_NOFIELDS}) =>
       /\ reply.ch.nelem = 5
       /\ reply.ch.elems = <<TotalOf(2), KeyOf(1), ScoreOf(1), KeyOf(2), ScoreOf(2)>>

\* The search of two documents with SEND_SCORES only has been answered
C13_Witness ==
  /\ SearchOfTwo({QEXEC_F_IS_SEARCH, QEXEC_F_SEND_SCORES})
  /\ reply.ch.rows = <<1, 2>>
  /\ reply.ch.rc = RS_RESULT_EOF

\* The receiver's decoding of a sort-key element by its first character
DigitValue(ch) ==
  CHOOSE d \in 0..9 : DigitChar(d) = ch

RECURSIVE ParseDigits(_, _)
ParseDigits(chars, acc) ==
  IF chars = <<>> THEN acc
  ELSE ParseDigits(Tail(chars), 10 * acc + DigitValue(Head(chars)))

ParseNumber(chars) ==
  IF chars # <<>> /\ Head(chars) = "-" THEN 0 - ParseDigits(Tail(chars), 0)
  ELSE ParseDigits(chars, 0)

parse_back(e) ==
  IF e.k = "null" \/ e.v = <<>> THEN [kind |-> "null", v |-> 0]
  ELSE IF Head(e.v) = "#" THEN [kind |-> "number", v |-> ParseNumber(Tail(e.v))]
  ELSE IF Head(e.v) = "$" THEN [kind |-> "string", v |-> Tail(e.v)]
  ELSE [kind |-> "other", v |-> 0]

\* The sort key a result was serialized with, as the sender holds it
SentSortKey(req, r) ==
  IF ~req.hasArrange THEN [kind |-> "null", v |-> 0]
  ELSE IF r.sortkey.t = "Number" THEN [kind |-> "number", v |-> r.sortkey.v]
  ELSE IF r.sortkey.t \in {"String", "RedisString"}
  THEN [kind |-> "string", v |-> r.sortkey.v]
  ELSE [kind |-> "null", v |-> 0]

\* The sort-key element of a serialized result: the last but the field array
SortKeyElement(req, ser) ==
  ser.out[Len(ser.out) - (IF QEXEC_F_SEND_NOFIELDS \in req.reqflags THEN 0 ELSE 1)]

SortKeySent ==
  reply.kind = "result" /\ QEXEC_F_SEND_SORTKEYS \in reply.req.reqflags

\* C14: the sort-key encoding is invertible: a number is sent with prefix
\* "#", a string or host string with prefix "$", any other type, a missing
\* key and a missing ArrangeStep as null, and decoding the element by its
\* first character gives back the kind and the value of every number and
\* of every string, those that begin with "#" or "$" included.
C14_SortKeyRoundTrip ==
  SortKeySent =>
    parse_back(SortKeyElement(reply.req, reply.ser)) = SentSortKey(reply.req, reply.r)

\* What the encoding does guarantee: numbers, and strings without a zero
\* byte, are given back by the decoding; a string with a zero byte is given
\* back cut at that byte.
SortKeyRoundTripCString ==
  SortKeySent =>
    LET sent == SentSortKey(reply.req, reply.r)
    IN  parse_back(SortKeyElement(reply.req, reply.ser)) =
          IF sent.kind = "string" THEN [sent EXCEPT !.v = PrintfS(@)] ELSE sent

-----------------------------------------------------------------------------
(* Properties of the end of iteration *)

\* C15: when Next returns Paused inside sendChunk, ITERDONE is not set on
\* the request: the cursor whose chunk ended on a Paused return is paused
\* in the registry and its nonzero id is returned; it is not disposed.
C15_PausedNotDone ==
  (reply.kind = "cursor" /\ reply.rc = RS_RESULT_PAUSED) =>
    /\ QEXEC_S_ITERDONE \notin reply.flags
    /\ reply.cid # 0
    /\ reply.arg \in DOMAIN cursors
    /\ cursors[reply.arg].state = "Paused"

\* A READ of cursor cid, with and without COUNT, finds no cursor
ReadNotFound(w, cid) ==
  \A argv \in {<<"FT.CURSOR", READ, "idx", IntArg(cid)>>,
               <<"FT.CURSOR", READ, "idx", IntArg(cid), "COUNT", IntArg(1)>>} :
    /\ RSCursorCommand(w, argv).rep.kind = "error"
    /\ RSCursorCommand(w, argv).rep.err = "Cursor not found"
    /\ RSCursorCommand(w, argv).cursor = NULL

\* No request in use has ITERDONE set, before the step and after it; a
\* freed request is attached to no cursor and no step touches it again
DoneIsFinal(rid) ==
  /\ areq[rid].freed = 0 => QEXEC_S_ITERDONE \notin areq[rid].stateflags
  /\ areq'[rid].freed = 0 => QEXEC_S_ITERDONE \notin areq'[rid].stateflags
  /\ areq[rid].freed = 1 => (AttachedTo(rid) = {} /\ areq'[rid] = areq[rid])

\* runCursor on cursor cid with request rid: a return of Next other than Ok
\* ends the chunk with ITERDONE set (reply.flags is the request's state
\* flags as sendChunk left them); if the chunk set ITERDONE the request is
\* freed and the cursor disposed in this step, and a READ of its id then
\* fails; if not, the request lives on, attached to the paused cursor
DoneDisposes(cid, rid) ==
  /\ areq[rid].freed = 0
  /\ reply'.pulls >= 1
  /\ reply'.rc # RS_RESULT_OK => QEXEC_S_ITERDONE \in reply'.flags
  /\ QEXEC_S_ITERDONE \in reply'.flags =>
       /\ reply'.cid = 0
       /\ cid \notin DOMAIN cursors'
       /\ areq'[rid].freed = 1
       /\ ReadNotFound([areq |-> areq', cursors |-> cursors', used |-> used',
                        nextCid |-> nextCid'], cid)
  /\ QEXEC_S_ITERDONE \notin reply'.flags =>
       /\ reply'.cid = cid
       /\ cid \in DOMAIN cursors'
       /\ cursors'[cid].execState = rid
       /\ areq'[rid].freed = 0

\* A request that is not a cursor's: allocated, given its single sendChunk,
\* which ends on a return other than Ok and sets ITERDONE, and freed, all in
\* the step of its command
DoneFrees ==
  reply'.kind = "array" =>
    /\ Len(areq') = Len(areq) + 1
    /\ reply'.rc # RS_RESULT_OK
    /\ QEXEC_S_ITERDONE \in reply'.flags
    /\ areq'[Len(areq')].freed = 1

\* C16: ITERDONE is monotonic and final for every request: once sendChunk
\* has set it, it is never cleared and Next is never called again on that
\* request's pipeline.  A request that is not a cursor's is freed right
\* after its single sendChunk; a cursor's request is disposed, with its
\* cursor, in the runCursor that observed ITERDONE, and since ids are not
\* handed out twice every later READ of that id replies "Cursor not found".
C16_IterDoneFinal ==
  [][/\ \A rid \in Allocated : DoneIsFinal(rid)
     /\ \A c \in Clients :
          RunCursorStep(c) =>
            DoneDisposes(cli[c].cursor, cursors[cli[c].cursor].execState)
     /\ DoneFrees
     /\ IdsFresh
     /\ \A cid \in Issued \ DOMAIN cursors : ReadNotFound(World, cid)]_vars

\* The second chunk of a cursor found its pipeline at its end: ITERDONE is
\* set by that one call of Next, the cursor is gone and a READ of it fails
C16_Witness ==
  /\ reply.kind = "cursor"
  /\ reply.rc = RS_RESULT_EOF /\ reply.pulls = 1
  /\ QEXEC_S_ITERDONE \in reply.flags
  /\ Len(recv[reply.arg]) >= 1
  /\ reply.arg \notin DOMAIN cursors
  /\ ReadNotFound(World, reply.arg)

-----------------------------------------------------------------------------
(* Properties of CURSOR READ *)

\* The handler of c starts on a cursor in this step: a READ that took its
\* cursor, or a WITHCURSOR command whose startCursor reserved a new one
Resumes(c) == cli[c].pc = "idle" /\ cli'[c].pc = "run" /\ nextCid' = nextCid
Starts(c) == cli[c].pc = "idle" /\ cli'[c].pc = "run" /\ nextCid' # nextCid

\* C17: on every CURSOR READ that finds its cursor ReopenKeys is called
\* exactly once, after the lease is taken and before the first Next of the
\* chunk; it is not called when the cursor is not found, and the first
\* chunk, run by startCursor, runs without it.
C17_ReopenKeys ==
  [][/\ reply'.reopens = IF \E c \in Clients : Resumes(c) THEN 1 ELSE 0
     /\ \A c \in Clients :
          /\ Resumes(c) =>
               /\ reply'.pulls = 0
               /\ cursors[cli'[c].cursor].state = "Paused"
               /\ cursors'[cli'[c].cursor].state = "Leased"
          /\ Starts(c) => reply'.pulls = 0
          /\ RunCursorStep(c) => reply'.pulls >= 1
     /\ (reply'.kind = "error" /\ reply'.err = "Cursor not found") =>
          \A c \in Clients : cli'[c] = cli[c]]_vars

\* A READ has taken the cursor whose first chunk was sent by startCursor:
\* the keys are reopened, the cursor is leased, no result is pulled yet
C17_Witness ==
  /\ reply.reopens = 1 /\ reply.pulls = 0
  /\ reply.arg \in DOMAIN cursors
  /\ cursors[reply.arg].state = "Leased"
  /\ Lessees(reply.arg) # {}
  /\ Len(recv[reply.arg]) >= 1

-----------------------------------------------------------------------------
(* Properties of NOROWS and of the chunk size *)

\* The results the pipeline of a chunk has to give before it ends or fails
Available(o) ==
  IF o.at = 0 THEN docs["idx"] ELSE Min(docs["idx"], o.at - 1)

\* Results from..to, in order
Range(from, to) == [i \in 1..(IF to >= from THEN to - from + 1 ELSE 0) |-> from + i - 1]

\* C18: NOROWS suppresses the serialization of the first result pulled only:
\* with NOROWS set and a limit of 2 or more, the first result is pulled,
\* counted against the limit and discarded, and the results pulled after it
\* in the same chunk are serialized.
C18_NoRowsFirstOnly ==
  (/\ reply.kind = "chunk"
   /\ QEXEC_F_NOROWS \in reply.req.reqflags
   /\ reply.limit >= 2
   /\ Available(reply.o) >= 1) =>
    /\ reply.ch.rows = Range(2, Min(reply.limit, Available(reply.o)))
    /\ reply.ch.req.pos = Min(reply.limit, Available(reply.o))
    /\ reply.ch.nelem = 1 + Len(reply.ch.rows) * Len(Sections(reply.req, Result(1)))

\* A chunk of limit 2 with NOROWS on a pipeline of two results: both are
\* pulled, the second alone is in the reply
C18_Witness ==
  /\ reply.kind = "chunk"
  /\ QEXEC_F_NOROWS \in reply.req.reqflags
  /\ reply.limit = 2 /\ docs["idx"] = 2 /\ reply.o = NoFault
  /\ reply.ch.rows = <<2>>
  /\ reply.ch.req.pos = 2
  /\ reply.ch.rc = RS_RESULT_OK

\* The chunk sizes of a cursor, on a pipeline long enough for three chunks
SizeDocs == 5     \* results of the pipeline
SizeCount == 2    \* largest COUNT given

SizeInputs ==
  {<<3, COMMAND_AGGREGATE, "idx",
     [flags |-> {QEXEC_F_IS_CURSOR}, count |-> n, maxidle |-> 1, fail |-> "none"],
     NoFault>> : n \in 0..SizeCount}

SizeArgvs ==
  {<<"FT.CURSOR", READ, "idx", IntArg(cid)>> : cid \in 1..MaxReq}
  \cup {<<"FT.CURSOR", READ, "idx", IntArg(cid), "COUNT", IntArg(n)>> :
          cid \in 1..MaxReq, n \in 0..SizeCount}

SizeInit ==
  /\ docs \in {[i \in Indexes |-> n] : n \in 0..SizeDocs}
  /\ areq = <<>>
  /\ cursors = [c \in {} |-> NULL]
  /\ used = [i \in Indexes |-> 0]
  /\ nextCid = 1
  /\ cli = [c \in Clients |-> [pc |-> "idle", cursor |-> NULL, num |-> 0]]
  /\ reply = NoReply
  /\ recv = <<>>

SizeExec(c) == ExecCommandOf(c, SizeInputs)
SizeRead(c) == \E argv \in SizeArgvs : CursorCommandWith(c, argv)

SizeNext ==
  \/ \E c \in Clients : SizeExec(c)
  \/ \E c \in Clients : SizeRead(c)
  \/ \E c \in Clients : RunCursor(c)

SizeSpec == SizeInit /\ [][SizeNext]_vars

\* The chunk size runCursor must use, given the count it is called with and
\* the size stored in the request
SizeFor(count, stored) ==
  IF count # 0 THEN count ELSE IF stored # 0 THEN stored ELSE cursorReadSize

\* runCursor on request rid, called with count n: the chunk, of the size
\* the rule gives, makes at most that many calls of Next, and exactly that
\* many if they all return Ok; the size is written back to the request
SizeUsed(cid, rid, n) ==
  /\ reply'.count = n
  /\ reply'.num = SizeFor(n, areq[rid].cursorChunkSize)
  /\ reply'.pulls <= reply'.num
  /\ reply'.rc = RS_RESULT_OK => reply'.pulls = reply'.num
  /\ cid \in DOMAIN cursors' => areq'[rid].cursorChunkSize = reply'.num

\* C19: the chunk size of a cursor chunk is the READ's COUNT if that is not
\* zero, else the chunk size stored in the request, else the global default;
\* the value used is written back to the request, where nothing but a later
\* chunk changes it.  So a READ without COUNT, or with COUNT 0, uses the
\* most recent nonzero COUNT of an earlier READ, not the chunk size given
\* with WITHCURSOR; the first chunk is run with count 0.
C19_ChunkSize ==
  [][/\ \A c \in Clients :
          /\ RunCursorStep(c) =>
               SizeUsed(cli[c].cursor, cursors[cli[c].cursor].execState, cli[c].num)
          /\ Starts(c) => cli'[c].num = 0
          /\ \A argv \in SizeArgvs :
               (CursorCommandWith(c, argv) /\ Resumes(c)) =>
                 cli'[c].num = IF Len(argv) > 5 THEN argv[6].v ELSE 0
     /\ (\A c \in Clients : ~RunCursorStep(c)) =>
          \A rid \in Allocated :
            AttachedTo(rid) # {} =>
              areq'[rid].cursorChunkSize = areq[rid].cursorChunkSize]_vars

\* WITHCURSOR COUNT 1 sent one result, READ COUNT 2 two, and the READ
\* without COUNT that followed ran with chunk size 2 and sent two more
C19_Witness ==
  /\ reply.kind = "cursor"
  /\ reply.count = 0 /\ reply.num = 2
  /\ reply.rows = <<4, 5>>
  /\ recv[reply.arg] = <<1, 2, 3, 4, 5>>
  /\ Len(areq) = 1
  /\ areq[1].cursorChunkSize = 2

-----------------------------------------------------------------------------
(* Properties of the error replies of FT.CURSOR *)

CursorErrors ==
  {"Bad cursor ID", "Bad value for COUNT", "Unknown subcommand",
   "Cursor not found", "Cursor does not exist"}

\* rep is an error reply of FT.CURSOR
CursorError(rep) ==
  \/ rep.kind = "arity" /\ rep.err = "FT.CURSOR"
  \/ rep.kind = "error" /\ rep.err \in CursorErrors

\* What FT.CURSOR given argv does in the current state, if it replies an
\* error: the requests and the registry are as before, no cursor is handed
\* to runCursor, nothing was pulled or reopened; the error is that of the
\* first test that fails, in the order arity, cursor id, subcommand
ErrorOnly(argv, res) ==
  /\ (res.rep.kind \in {"arity", "error"}) =>
       /\ CursorError(res.rep)
       /\ res.w = World
       /\ res.cursor = NULL
       /\ res.rep.pulls = 0 /\ res.rep.reopens = 0 /\ res.rep.rows = <<>>
  /\ Len(argv) < 4 => res.rep.kind = "arity"
  /\ (Len(argv) >= 4 /\ ~argv[4].ok) =>
       (res.rep.kind = "error" /\ res.rep.err = "Bad cursor ID")
  /\ (Len(argv) >= 4 /\ argv[4].ok /\ toupper(argv[2][1]) \notin {"R", "D", "G"}) =>
       (res.rep.kind = "error" /\ res.rep.err = "Unknown subcommand")
  /\ (Len(argv) > 5 /\ argv[4].ok /\ ~argv[6].ok) =>
       (res.rep.kind = "error" /\ res.rep.err = "Bad value for COUNT")

\* C20: every error reply of FT.CURSOR (wrong arity, "Bad cursor ID", "Bad
\* value for COUNT", "Unknown subcommand", "Cursor not found", "Cursor does
\* not exist") is the only thing its command does: the requests, the
\* registry and every cursor are left as they were (no lease, no dispose,
\* no refresh of last_used, no Next).  The cursor id is validated before
\* the dispatch, so an unknown subcommand or GC given a cursor id that is
\* not an integer replies "Bad cursor ID".
C20_ErrorsChangeNothing ==
  \A argv \in CursorArgvs : ErrorOnly(argv, RSCursorCommand(World, argv))

\* The same of the steps taken: a step that replies one of these errors
\* changes nothing but the reply
CursorErrorSteps ==
  [][CursorError(reply') =>
       UNCHANGED <<docs, areq, cursors, used, nextCid, cli, recv>>]_vars

\* "Bad cursor ID" has been replied while a cursor sat idle in the
\* registry: it is still Paused, and its idle time was not reset
C20_Witness ==
  /\ reply.kind = "error" /\ reply.err = "Bad cursor ID"
  /\ \E cid \in DOMAIN cursors :
       cursors[cid].state = "Paused" /\ cursors[cid].idle >= 1

=============================================================================
